---- MODULE Spec2Model ----
(***************************************************************************)
(* CivicView hotspot generation (civicview/tasks.py) and the API views     *)
(* that read and write the same tables (civicview/views.py).               *)
(*                                                                         *)
(* Coordinates are integers: one grid step is 0.01 degree, so the          *)
(* configured eps = 0.01 is one step and "within eps" is a squared         *)
(* distance of at most Eps * Eps.                                          *)
(***************************************************************************)
EXTENDS Integers, Sequences, FiniteSets

\* ------------------------------------------------------------------ bounds

\* Largest x and y grid coordinate of a report or input point.
MaxX == 2
MaxY == 1
\* Longest point list handed to the clustering function, and to the polygon
\* function.
MaxPts == 3
MaxHullPts == 4
\* Largest min_samples the clustering function is exercised with.
MaxMinPts == 3
\* Largest x coordinate of a report filed through the API, and the most
\* Report rows the table holds.
MaxSite == 2
MaxReports == 2
\* Most generate_hotspots calls made in one behaviour.
MaxCalls == 2
\* The street: the longest point list on it and the min_samples it is
\* clustered with.
StreetPts == 7
StreetMinPts == 4

\* -------------------------------------------------------- configuration

\* DBSCAN(eps=0.01, ...): one grid step.
Eps == 1
\* DBSCAN(..., min_samples=2)
MinSamples == 2
\* labels_ value of a noise point
NOISE == -1

Grid == (0 .. MaxX) \X (0 .. MaxY)

\* Five places in a row, one step apart: the fewest on which one point can
\* lie within eps of two clusters without joining them.
Street == {<<0, 0>>, <<1, 0>>, <<2, 0>>, <<3, 0>>, <<4, 0>>}

\* ---------------------------------------------------------------- helpers

Range(s) == {s[i] : i \in 1 .. Len(s)}

SeqsUpTo(S, n) == UNION {[1 .. k -> S] : k \in 0 .. n}

MinOf(S) == CHOOSE m \in S : \A k \in S : m <= k

MaxOf(S) == CHOOSE m \in S : \A k \in S : m >= k

\* Squared Euclidean distance between two points.
Dist2(p, q) == (p[1] - q[1]) * (p[1] - q[1]) + (p[2] - q[2]) * (p[2] - q[2])

\* ------------------------------------------------- DBSCAN(...).fit(coords)
\* scikit-learn's DBSCAN as tasks.py calls it: radius neighbourhoods with
\* distance <= eps (the point itself included), core samples by
\* neighbourhood size, then the depth-first labelling of dbscan_inner.

\* As Neighborhood, without the point itself.
NeighborhoodOthers(X, eps, i) ==
    {j \in 1 .. Len(X) \ {i} : Dist2(X[i], X[j]) <= eps * eps}

\* neighborhoods[i]: the indices within eps of point i, i included.
Neighborhood(X, eps, i) == {j \in 1 .. Len(X) : Dist2(X[i], X[j]) <= eps * eps}

\* As IsCore, with the comparison strict.
IsCoreStrict(X, eps, min_samples, i) ==
    Cardinality(Neighborhood(X, eps, i)) > min_samples

\* core_samples: n_neighbors >= min_samples
IsCore(X, eps, min_samples, i) ==
    Cardinality(Neighborhood(X, eps, i)) >= min_samples

\* The stack as a sequence whose last element is the top; neighbours are
\* pushed in ascending index order.
RECURSIVE PushAll(_, _, _)
PushAll(stack, S, lab) ==
    IF S = {} THEN stack
    ELSE LET v == MinOf(S)
         IN  PushAll(IF lab[v] = NOISE THEN Append(stack, v) ELSE stack,
                     S \ {v}, lab)

\* As Expand, but only the seed's own neighbourhood is pushed: a point popped
\* from the stack is labelled and never expanded.
RECURSIVE ExpandSeedOnly(_, _, _, _, _, _, _)
ExpandSeedOnly(X, eps, min_samples, lab, stack, i, label_num) ==
    LET fresh  == lab[i] = NOISE
        lab2   == IF fresh THEN [lab EXCEPT ![i] = label_num] ELSE lab
        stack2 == IF fresh /\ label_num \notin Range(lab)
                  THEN PushAll(stack, Neighborhood(X, eps, i), lab2)
                  ELSE stack
    IN  IF stack2 = <<>> THEN lab2
        ELSE ExpandSeedOnly(X, eps, min_samples, lab2,
                            SubSeq(stack2, 1, Len(stack2) - 1),
                            stack2[Len(stack2)], label_num)

\* The "while True" loop of dbscan_inner for one seed: label i if it is
\* unlabelled, push the unlabelled neighbours of a core i, pop the next.
RECURSIVE Expand(_, _, _, _, _, _, _)
Expand(X, eps, min_samples, lab, stack, i, label_num) ==
    LET fresh  == lab[i] = NOISE
        lab2   == IF fresh THEN [lab EXCEPT ![i] = label_num] ELSE lab
        stack2 == IF fresh /\ IsCore(X, eps, min_samples, i)
                  THEN PushAll(stack, Neighborhood(X, eps, i), lab2)
                  ELSE stack
    IN  IF stack2 = <<>> THEN lab2
        ELSE Expand(X, eps, min_samples, lab2,
                    SubSeq(stack2, 1, Len(stack2) - 1),
                    stack2[Len(stack2)], label_num)

\* As Scan, but the seeds are taken from the last index down to the first.
RECURSIVE ScanDescending(_, _, _, _, _, _)
ScanDescending(X, eps, min_samples, lab, i, label_num) ==
    LET j == Len(X) + 1 - i
    IN  IF i > Len(X) THEN lab
        ELSE IF lab[j] # NOISE \/ ~IsCore(X, eps, min_samples, j)
             THEN ScanDescending(X, eps, min_samples, lab, i + 1, label_num)
             ELSE ScanDescending(X, eps, min_samples,
                       Expand(X, eps, min_samples, lab, <<>>, j, label_num),
                       i + 1, label_num + 1)

\* The "for i in range(n)" loop of dbscan_inner: every unlabelled core point
\* seeds the next cluster number.
RECURSIVE Scan(_, _, _, _, _, _)
Scan(X, eps, min_samples, lab, i, label_num) ==
    IF i > Len(X) THEN lab
    ELSE IF lab[i] # NOISE \/ ~IsCore(X, eps, min_samples, i)
         THEN Scan(X, eps, min_samples, lab, i + 1, label_num)
         ELSE Scan(X, eps, min_samples,
                   Expand(X, eps, min_samples, lab, <<>>, i, label_num),
                   i + 1, label_num + 1)

\* clustering.labels_: one label per input point, in input order.
DBSCAN(X, eps, min_samples) ==
    Scan(X, eps, min_samples, [i \in 1 .. Len(X) |-> NOISE], 1, 0)

\* ------------------------------------------- grouping (tasks.py 36 to 43)
\* The dict "clusters" as a sequence of entries in insertion order, each a
\* record of the key (the label) and the list of points appended to it.

HasKey(clusters, label) == \E k \in 1 .. Len(clusters) : clusters[k].cluster_id = label

KeyIndex(clusters, label) == CHOOSE k \in 1 .. Len(clusters) : clusters[k].cluster_id = label

\* As SetDefaultAppend, but an existing list is replaced, not appended to.
SetDefaultOverwrite(clusters, label, p) ==
    IF HasKey(clusters, label)
    THEN [clusters EXCEPT ![KeyIndex(clusters, label)].points = <<p>>]
    ELSE Append(clusters, [cluster_id |-> label, points |-> <<p>>])

\* clusters.setdefault(label, []).append((x, y))
SetDefaultAppend(clusters, label, p) ==
    IF HasKey(clusters, label)
    THEN [clusters EXCEPT ![KeyIndex(clusters, label)].points = Append(@, p)]
    ELSE Append(clusters, [cluster_id |-> label, points |-> <<p>>])

\* As GroupFrom, with the noise points grouped under their label too.
RECURSIVE GroupFromKeepNoise(_, _, _, _)
GroupFromKeepNoise(coords, labels, i, clusters) ==
    IF i > Len(coords) \/ i > Len(labels) THEN clusters
    ELSE GroupFromKeepNoise(coords, labels, i + 1,
                            SetDefaultAppend(clusters, labels[i], coords[i]))

\* for (x, y), label in zip(coords, labels): noise is skipped.
RECURSIVE GroupFrom(_, _, _, _)
GroupFrom(coords, labels, i, clusters) ==
    IF i > Len(coords) \/ i > Len(labels) THEN clusters
    ELSE GroupFrom(coords, labels, i + 1,
                   IF labels[i] = NOISE THEN clusters
                   ELSE SetDefaultAppend(clusters, labels[i], coords[i]))

GroupByLabel(coords, labels) == GroupFrom(coords, labels, 1, <<>>)

\* ------------------------------------------------ polygons (tasks.py 62 to 97)

\* As bbox_polygon, without the closing corner.
bbox_polygon_open(points) ==
    LET xs == {points[i][1] : i \in 1 .. Len(points)}
        ys == {points[i][2] : i \in 1 .. Len(points)}
    IN  << <<MinOf(xs), MinOf(ys)>>, <<MinOf(xs), MaxOf(ys)>>,
           <<MaxOf(xs), MaxOf(ys)>>, <<MaxOf(xs), MinOf(ys)>> >>

\* The rectangle of the extreme coordinates, closed on its first corner.
bbox_polygon(points) ==
    LET xs == {points[i][1] : i \in 1 .. Len(points)}
        ys == {points[i][2] : i \in 1 .. Len(points)}
        minx == MinOf(xs)
        maxx == MaxOf(xs)
        miny == MinOf(ys)
        maxy == MaxOf(ys)
    IN  << <<minx, miny>>, <<minx, maxy>>, <<maxx, maxy>>, <<maxx, miny>>,
           <<minx, miny>> >>

\* Twice the signed area of the triangle o, a, b: positive when b lies to
\* the left of the ray from o through a.
Cross(o, a, b) ==
    (a[1] - o[1]) * (b[2] - o[2]) - (a[2] - o[2]) * (b[1] - o[1])

\* As HullGeomType, going by the number of distinct points alone.
HullGeomTypeByCount(S) ==
    IF Cardinality(S) >= 3 THEN "Polygon"
    ELSE IF Cardinality(S) > 1 THEN "LineString"
    ELSE "Point"

\* multipoint.convex_hull is a Polygon exactly when three of the points are
\* not on one line; otherwise it is a LineString or a Point.
HullGeomType(S) ==
    IF \E a, b, c \in S : Cross(a, b, c) # 0 THEN "Polygon"
    ELSE IF Cardinality(S) > 1 THEN "LineString"
    ELSE "Point"

\* The hull ring starts at the lowest point (the leftmost of the lowest).
HullStart(S) ==
    CHOOSE p \in S : \A q \in S : p[2] < q[2] \/ (p[2] = q[2] /\ p[1] <= q[1])

\* The vertex that follows p on the ring: every other point lies to the
\* right of the edge from p to it, or on the edge itself.
HullNext(S, p) ==
    CHOOSE q \in S \ {p} :
        \A r \in S \ {p, q} :
            \/ Cross(p, q, r) < 0
            \/ Cross(p, q, r) = 0 /\ Dist2(p, r) < Dist2(p, q)

\* As HullWalk, but the ring is closed after its third corner.
RECURSIVE HullWalkShort(_, _, _, _)
HullWalkShort(S, start, p, ring) ==
    LET q == HullNext(S, p)
    IN  IF q = start \/ Len(ring) >= 3 THEN Append(ring, start)
        ELSE HullWalkShort(S, start, q, Append(ring, q))

RECURSIVE HullWalk(_, _, _, _)
HullWalk(S, start, p, ring) ==
    LET q == HullNext(S, p)
    IN  IF q = start THEN Append(ring, start)
        ELSE HullWalk(S, start, q, Append(ring, q))

\* list(hull.exterior.coords) of a Polygon hull: its corners only, in ring
\* order, the first repeated at the end.
HullExteriorCoords(S) == HullWalk(S, HullStart(S), HullStart(S), <<HullStart(S)>>)

as_polygon(points) ==
    IF Len(points) < 3 THEN bbox_polygon(points)
    ELSE IF HullGeomType(Range(points)) # "Polygon" THEN bbox_polygon(points)
    ELSE HullExteriorCoords(Range(points))

\* ----------------------------------------------------------------- state

\* The processes that execute generate_hotspots: the Celery worker that
\* serves the beat schedule, and the management command.
Runs == {"beat", "command"}

\* The places a report can be filed at.
Sites == {<<x, 0>> : x \in 0 .. MaxSite}

VARIABLES
    \* storage
    reports,        \* the Report table: how many rows have each geom
    hotspots,       \* the Hotspot table: its rows, oldest first
    \* one generate_hotspots call per process
    pc,             \* the statement the call runs next, "idle" outside a call
    coords,         \* the list built from the queryset
    labels,         \* clustering.labels_
    clusters,       \* the dict of points per label
    created,        \* the counter of rows created
    result,         \* how the last call ended: the dict returned, or the exception
    \* history, read by the properties only
    calls,          \* how many calls have been made
    committed,      \* the Hotspot table as it was when last no call was in flight
    overlapped,     \* two calls have been in flight together since then
    checked,        \* the Report table as reports.exists() found it
    \* the clustering and polygon functions applied to drawn inputs
    in_points,      \* the point list handed to the function
    in_min_samples, \* the min_samples handed to DBSCAN
    stage,          \* "input", "fitted", "grouped" or "enclosed"
    out_labels,     \* clustering.labels_ once fitted
    out_clusters,   \* the grouping of in_points by out_labels
    out_polygon     \* as_polygon(in_points)

storeVars == <<reports, hotspots>>

localVars == <<coords, labels, clusters, created>>

engineVars == <<in_points, in_min_samples, stage, out_labels, out_clusters, out_polygon>>

vars == <<storeVars, pc, localVars, result, calls, committed, overlapped, checked,
          engineVars>>

NoReports == [p \in Sites |-> 0]

RECURSIVE SumOver(_, _)
SumOver(f, S) ==
    IF S = {} THEN 0
    ELSE LET p == CHOOSE q \in S : TRUE IN f[p] + SumOver(f, S \ {p})

\* The number of rows of the Report table.
Count(table) == SumOver(table, DOMAIN table)

\* The geoms of the rows of the Report table as a list, in one of the orders
\* a query with no ORDER BY may return them.
RowOrders(table) ==
    {s \in [1 .. Count(table) -> DOMAIN table] :
        \A p \in DOMAIN table : Cardinality({i \in DOMAIN s : s[i] = p}) = table[p]}

InFlight(r) == pc[r] # "idle"

Other(r) == CHOOSE o \in Runs : o # r

\* The rows a call writes for its clusters, in the order of the create loop.
HotspotRows(cl) ==
    [k \in 1 .. Len(cl) |->
        [cluster_id |-> cl[k].cluster_id, geom |-> as_polygon(cl[k].points)]]

Reverse(s) == [i \in 1 .. Len(s) |-> s[Len(s) + 1 - i]]

\* ------------------------------------------------------------------- Init
\* The migrated database holds no row; no call has been made.

NoEngine ==
    /\ in_points = <<>>
    /\ in_min_samples = MinSamples
    /\ stage = "off"
    /\ out_labels = <<>>
    /\ out_clusters = <<>>
    /\ out_polygon = <<>>

NoCall ==
    /\ pc = [r \in Runs |-> "idle"]
    /\ coords = [r \in Runs |-> <<>>]
    /\ labels = [r \in Runs |-> <<>>]
    /\ clusters = [r \in Runs |-> <<>>]
    /\ created = [r \in Runs |-> 0]
    /\ result = [r \in Runs |-> [outcome |-> "none"]]
    /\ calls = 0
    /\ committed = <<>>
    /\ overlapped = FALSE
    /\ checked = [r \in Runs |-> NoReports]

Init ==
    /\ reports = NoReports
    /\ hotspots = <<>>
    /\ NoCall
    /\ NoEngine

\* ------------------------------------------------ views.py: the API views

\* POST /api/reports/ (ReportViewSet.create, ReportSerializer.create)
CreateReport(p) ==
    /\ Count(reports) < MaxReports
    /\ reports' = [reports EXCEPT ![p] = @ + 1]
    /\ UNCHANGED <<hotspots, pc, localVars, result, calls, committed, overlapped,
                   checked, engineVars>>

\* DELETE /api/reports/<id>/ (ReportViewSet.destroy)
DeleteReport(p) ==
    /\ reports[p] > 0
    /\ reports' = [reports EXCEPT ![p] = @ - 1]
    /\ UNCHANGED <<hotspots, pc, localVars, result, calls, committed, overlapped,
                   checked, engineVars>>

\* GET /api/hotspots/ (HotspotViewSet.list): the response to a request
\* served now is every row of the table, newest first.
HotspotList == Reverse(hotspots)

\* ------------------------------------------- tasks.py: generate_hotspots

\* The call of process r returns or raises: its locals are gone, and the
\* history variables are brought up to date for the table as it now stands.
Leave(r, outcome, table) ==
    /\ pc' = [pc EXCEPT ![r] = "idle"]
    /\ result' = [result EXCEPT ![r] = outcome]
    /\ coords' = [coords EXCEPT ![r] = <<>>]
    /\ labels' = [labels EXCEPT ![r] = <<>>]
    /\ clusters' = [clusters EXCEPT ![r] = <<>>]
    /\ created' = [created EXCEPT ![r] = 0]
    /\ checked' = [checked EXCEPT ![r] = NoReports]
    /\ IF InFlight(Other(r))
       THEN UNCHANGED <<committed, overlapped>>
       ELSE committed' = table /\ overlapped' = FALSE

\* The beat schedule or "manage.py generate_hotspots" calls the function.
\* Nothing looks at whether another call is in flight.
Trigger(r) ==
    /\ ~InFlight(r)
    /\ calls < MaxCalls
    /\ calls' = calls + 1
    /\ pc' = [pc EXCEPT ![r] = "exists"]
    /\ result' = [result EXCEPT ![r] = [outcome |-> "none"]]
    /\ overlapped' = (overlapped \/ InFlight(Other(r)))
    /\ UNCHANGED <<storeVars, localVars, committed, checked, engineVars>>

\* reports = Report.objects.all(); if not reports.exists(): return {...}
CheckExists(r) ==
    /\ pc[r] = "exists"
    /\ IF Count(reports) = 0
       THEN Leave(r, [outcome |-> "returned", hotspots_created |-> 0,
                      total_reports |-> 0, clusters_found |-> 0], hotspots)
       ELSE /\ pc' = [pc EXCEPT ![r] = "read"]
            /\ checked' = [checked EXCEPT ![r] = reports]
            /\ UNCHANGED <<localVars, result, committed, overlapped>>
    /\ UNCHANGED <<storeVars, calls, engineVars>>

\* coords = [(r.geom.x, r.geom.y) for r in reports] runs the query a second
\* time; DBSCAN(...).fit(coords) raises ValueError on an empty list.
ReadAndFit(r) ==
    /\ pc[r] = "read"
    /\ \E c \in RowOrders(reports) :
        IF c = <<>>
        THEN Leave(r, [outcome |-> "ValueError"], hotspots)
        ELSE /\ pc' = [pc EXCEPT ![r] = "delete"]
             /\ coords' = [coords EXCEPT ![r] = c]
             /\ labels' = [labels EXCEPT ![r] = DBSCAN(c, Eps, MinSamples)]
             /\ checked' = [checked EXCEPT ![r] = NoReports]
             /\ UNCHANGED <<clusters, created, result, committed, overlapped>>
    /\ UNCHANGED <<storeVars, calls, engineVars>>

\* As Summary, with clusters_found taken as the number of distinct labels.
SummaryCountsLabels(r, cl, n) ==
    [outcome |-> "returned", hotspots_created |-> n,
     total_reports |-> Len(coords[r]),
     clusters_found |-> Cardinality(Range(labels[r]))]

\* The summary dict of the final return statement.
Summary(r, cl, n) ==
    [outcome |-> "returned", hotspots_created |-> n,
     total_reports |-> Len(coords[r]), clusters_found |-> Len(cl)]

\* As DeleteHotspots, with the Report table emptied as well.
DeleteHotspotsAndReports(r) ==
    /\ pc[r] = "delete"
    /\ hotspots' = <<>>
    /\ reports' = NoReports
    /\ LET cl == GroupByLabel(coords[r], labels[r])
       IN  IF cl = <<>>
           THEN Leave(r, Summary(r, cl, 0), <<>>)
           ELSE /\ pc' = [pc EXCEPT ![r] = "create"]
                /\ clusters' = [clusters EXCEPT ![r] = cl]
                /\ created' = [created EXCEPT ![r] = 0]
                /\ UNCHANGED <<coords, labels, result, committed, overlapped, checked>>
    /\ UNCHANGED <<calls, engineVars>>

\* Hotspot.objects.all().delete(), then the grouping loop over
\* zip(coords, labels); with no cluster the create loop is empty and the
\* function returns.
DeleteHotspots(r) ==
    /\ pc[r] = "delete"
    /\ hotspots' = <<>>
    /\ LET cl == GroupByLabel(coords[r], labels[r])
       IN  IF cl = <<>>
           THEN Leave(r, Summary(r, cl, 0), <<>>)
           ELSE /\ pc' = [pc EXCEPT ![r] = "create"]
                /\ clusters' = [clusters EXCEPT ![r] = cl]
                /\ created' = [created EXCEPT ![r] = 0]
                /\ UNCHANGED <<coords, labels, result, committed, overlapped, checked>>
    /\ UNCHANGED <<reports, calls, engineVars>>

\* One pass of "for cluster_id, points in clusters.items()":
\* Hotspot.objects.create(...); created += 1; after the last one, return.
CreateHotspot(r) ==
    /\ pc[r] = "create"
    /\ LET k == created[r] + 1
           table == Append(hotspots, HotspotRows(clusters[r])[k])
       IN  /\ hotspots' = table
           /\ IF k = Len(clusters[r])
              THEN Leave(r, Summary(r, clusters[r], k), table)
              ELSE /\ created' = [created EXCEPT ![r] = k]
                   /\ UNCHANGED <<pc, coords, labels, clusters, result, committed,
                                  overlapped, checked>>
    /\ UNCHANGED <<reports, calls, engineVars>>

\* The database raises on the statement the call is about to run: the
\* statement changes nothing and the exception leaves generate_hotspots.
StorageError(r) ==
    /\ InFlight(r)
    /\ Leave(r, [outcome |-> "DatabaseError"], hotspots)
    /\ UNCHANGED <<storeVars, calls, engineVars>>

Next ==
    \/ \E p \in Sites : CreateReport(p)
    \/ \E p \in Sites : DeleteReport(p)
    \/ \E r \in Runs : Trigger(r)
    \/ \E r \in Runs : CheckExists(r)
    \/ \E r \in Runs : ReadAndFit(r)
    \/ \E r \in Runs : DeleteHotspots(r)
    \/ \E r \in Runs : CreateHotspot(r)
    \/ \E r \in Runs : StorageError(r)

Spec == Init /\ [][Next]_vars

\* ------------------------------------------- the functions on drawn inputs

systemVars == <<storeVars, pc, localVars, result, calls, committed, overlapped, checked>>

NoSystem ==
    /\ reports = NoReports
    /\ hotspots = <<>>
    /\ NoCall

\* An input drawn for the function, nothing computed yet.
Drawn(points, min_samples) ==
    /\ in_points \in points
    /\ in_min_samples \in min_samples
    /\ stage = "input"
    /\ out_labels = <<>>
    /\ out_clusters = <<>>
    /\ out_polygon = <<>>
    /\ NoSystem

\* clustering = DBSCAN(eps, min_samples).fit(coords); labels = clustering.labels_
\* fit rejects an empty array, so only a non-empty list is fitted.
Fit ==
    /\ stage = "input"
    /\ in_points # <<>>
    /\ out_labels' = DBSCAN(in_points, Eps, in_min_samples)
    /\ stage' = "fitted"
    /\ UNCHANGED <<in_points, in_min_samples, out_clusters, out_polygon, systemVars>>

\* The grouping loop over zip(coords, labels).
Group ==
    /\ stage = "fitted"
    /\ out_clusters' = GroupByLabel(in_points, out_labels)
    /\ stage' = "grouped"
    /\ UNCHANGED <<in_points, in_min_samples, out_labels, out_polygon, systemVars>>

\* _as_polygon(points) on a non-empty list.
Enclose ==
    /\ stage = "input"
    /\ in_points # <<>>
    /\ out_polygon' = as_polygon(in_points)
    /\ stage' = "enclosed"
    /\ UNCHANGED <<in_points, in_min_samples, out_labels, out_clusters, systemVars>>

\* Clustering and grouping of every point list on the grid.
EngineInit == Drawn(SeqsUpTo(Grid, MaxPts), 1 .. MaxMinPts)

EngineNext == Fit \/ Group

SpecEngine == EngineInit /\ [][EngineNext]_vars

\* Clustering of every point list on the street.
StreetInit == Drawn(SeqsUpTo(Street, StreetPts), {StreetMinPts})

StreetNext == Fit

SpecStreet == StreetInit /\ [][StreetNext]_vars

\* The polygon of every non-empty point list on the grid.
HullInit == Drawn(SeqsUpTo(Grid, MaxHullPts) \ {<<>>}, {MinSamples})

PolygonNext == Enclose

SpecHull == HullInit /\ [][PolygonNext]_vars

\* ================================================================ properties

\* ---- no call in flight: the table is the one recorded.
TypeOK ==
    /\ \A r \in Runs : pc[r] \in {"idle", "exists", "read", "delete", "create"}
    /\ Count(reports) <= MaxReports
    /\ calls \in 0 .. MaxCalls
    /\ (\A r \in Runs : ~InFlight(r)) => committed = hotspots

\* The call of r is the only one in flight and has been since it began.
Solo(r) == InFlight(r) /\ ~InFlight(Other(r)) /\ ~overlapped

\* The call of r takes the step that ends it.
Leaves(r) == InFlight(r) /\ pc'[r] = "idle"

\* What the call of r has computed to replace the table with, once it has
\* read the reports.
Replacement(r) == HotspotRows(GroupByLabel(coords[r], labels[r]))

\* C1: a list request served at any moment of a call returns the whole table
\* of before the call or the whole table the call replaces it with, never an
\* empty or part-filled table in between.
C1_ListSeesOldOrNew ==
    \A r \in Runs :
        Solo(r) =>
            \/ HotspotList = Reverse(committed)
            \/ /\ pc[r] \in {"delete", "create"}
               /\ HotspotList = Reverse(Replacement(r))

\* C2: at most one call is in flight at any time.
C2_OneCallInFlight ==
    \A r \in Runs : ~(InFlight(r) /\ InFlight(Other(r)))

\* C3: when a statement of a call raises a database error, the Hotspot table
\* is what it was before the call began.
C3_ErrorLeavesTable ==
    [][\A r \in Runs :
          (Solo(r) /\ Leaves(r) /\ result'[r].outcome = "DatabaseError")
              => hotspots' = committed]_vars

\* C4: when a call that overlapped no other returns its summary, the Hotspot
\* table holds exactly the rows computed from the reports the call read: no
\* row of an earlier call, and no row at all when it read no report.
C4_TableIsReplacement ==
    [][\A r \in Runs :
          (Solo(r) /\ Leaves(r)
                   /\ result'[r].outcome = "returned")
              => hotspots' = Replacement(r)]_vars

\* C5: the list a call clusters holds the reports its emptiness check looked
\* at, so clustering is never handed an empty list.
C5_OneStableRead ==
    [][\A r \in Runs :
          pc[r] = "read" =>
              /\ pc'[r] = "delete" => coords'[r] \in RowOrders(checked[r])
              /\ result'[r].outcome # "ValueError"]_vars

\* ---- clustering

\* The points p and q lie within eps of each other.
WithinEps(p, q) == Dist2(p, q) <= Eps * Eps

Indices == 1 .. Len(in_points)

\* At least in_min_samples input points, i itself included, lie within eps
\* of point i.
CorePoint(i) ==
    Cardinality({j \in Indices : WithinEps(in_points[i], in_points[j])})
        >= in_min_samples

CorePoints == {i \in Indices : CorePoint(i)}

\* The core points joined to those of S by a chain of core points, each
\* within eps of the next.
RECURSIVE CoreChain(_)
CoreChain(S) ==
    LET T == S \cup {j \in CorePoints :
                        \E i \in S : WithinEps(in_points[i], in_points[j])}
    IN  IF T = S THEN S ELSE CoreChain(T)

NoisePoints == {i \in Indices : out_labels[i] = NOISE}

\* The input points that carry label l, in input order.
RECURSIVE LabelledFrom(_, _)
LabelledFrom(i, l) ==
    IF i > Len(in_points) THEN <<>>
    ELSE (IF out_labels[i] = l THEN <<in_points[i]>> ELSE <<>>)
             \o LabelledFrom(i + 1, l)

RECURSIVE TotalPoints(_, _)
TotalPoints(cl, k) ==
    IF k > Len(cl) THEN 0 ELSE Len(cl[k].points) + TotalPoints(cl, k + 1)

C7_DensityReachability ==
    stage = "fitted" =>
        /\ \A i \in Indices :
              out_labels[i] = NOISE <=>
                  /\ ~CorePoint(i)
                  /\ ~\E j \in CorePoints : WithinEps(in_points[i], in_points[j])
        /\ \A i, j \in CorePoints :
              out_labels[i] = out_labels[j] <=> j \in CoreChain({i})

C7_Witness ==
    /\ stage = "fitted"
    /\ \E i, j \in CorePoints :
          /\ ~WithinEps(in_points[i], in_points[j])
          /\ out_labels[i] = out_labels[j]

\* The clusters a point that is no core point lies within eps of a core
\* point of, core being the set of core points.
TouchedClusters(core, b) ==
    {out_labels[j] : j \in {c \in core : WithinEps(in_points[b], in_points[c])}}

\* The first point of core that carries label k, in input order.
FirstCore(core, k) == MinOf({i \in core : out_labels[i] = k})

ClusterLabels == {out_labels[i] : i \in Indices} \ {NOISE}

\* C8: clusters are numbered in the order their first core point comes in
\* the input, and a point that is no core point and lies within eps of core
\* points of several clusters carries the label of the one found first.
C8_FirstFoundClusterWins ==
    stage = "fitted" =>
        LET core  == CorePoints
            found == ClusterLabels
            first == [k \in found |-> FirstCore(core, k)]
        IN  /\ found = 0 .. (Cardinality(found) - 1)
            /\ \A k, m \in found : k < m => first[k] < first[m]
            /\ \A b \in Indices \ core :
                  LET touched == TouchedClusters(core, b)
                  IN  touched # {} =>
                          /\ out_labels[b] \in touched
                          /\ \A k \in touched : first[out_labels[b]] <= first[k]

C8_Witness ==
    /\ stage = "fitted"
    /\ \E b \in Indices \ CorePoints :
          Cardinality(TouchedClusters(CorePoints, b)) >= 2

Permutations(n) ==
    {f \in [1 .. n -> 1 .. n] : \A a, b \in 1 .. n : f[a] = f[b] => a = b}

\* The labels of the input reordered by f: position k holds point f[k].
LabelsPermuted(f) ==
    DBSCAN([k \in Indices |-> in_points[f[k]]], Eps, in_min_samples)

\* C9: with the configured min_samples, clustering the points in any other
\* order puts the same points together and leaves the same points as noise.
C9_OrderKeepsPartition ==
    (stage = "fitted" /\ in_min_samples = MinSamples) =>
        \A f \in Permutations(Len(in_points)) :
            LET other == LabelsPermuted(f)
            IN  \A k, m \in Indices :
                    /\ other[k] = NOISE <=> out_labels[f[k]] = NOISE
                    /\ other[k] = other[m] <=> out_labels[f[k]] = out_labels[f[m]]

C9_Witness ==
    /\ stage = "fitted"
    /\ in_min_samples = MinSamples
    /\ Len(in_points) = 3
    /\ NoisePoints = {}
    /\ ~WithinEps(in_points[1], in_points[3])
    /\ in_points[1] # in_points[2]

\* ---- polygons

IsLeast(v, S) == v \in S /\ \A w \in S : v <= w

IsGreatest(v, S) == v \in S /\ \A w \in S : v >= w

\* C10: the ring of a non-empty point list ends on its first vertex, and for
\* one or two points it is the five corners of their bounding rectangle.
C10_ClosedRingAndRectangle ==
    stage = "enclosed" =>
        /\ Len(out_polygon) >= 1
        /\ out_polygon[1] = out_polygon[Len(out_polygon)]
        /\ Len(in_points) <= 2 =>
              \E minx, maxx \in 0 .. MaxX, miny, maxy \in 0 .. MaxY :
                  /\ IsLeast(minx, {in_points[i][1] : i \in Indices})
                  /\ IsGreatest(maxx, {in_points[i][1] : i \in Indices})
                  /\ IsLeast(miny, {in_points[i][2] : i \in Indices})
                  /\ IsGreatest(maxy, {in_points[i][2] : i \in Indices})
                  /\ out_polygon = << <<minx, miny>>, <<minx, maxy>>,
                                      <<maxx, maxy>>, <<maxx, miny>>,
                                      <<minx, miny>> >>

C10_Witness ==
    /\ stage = "enclosed"
    /\ Len(in_points) = 2
    /\ in_points[1][1] # in_points[2][1]
    /\ in_points[1][2] # in_points[2][2]

\* Twice the signed area of the triangle a, b, p.
Side(a, b, p) ==
    (b[1] - a[1]) * (p[2] - a[2]) - (b[2] - a[2]) * (p[1] - a[1])

\* The point p lies inside the convex ring or on it: on one side of every
\* edge (or on its line), and within the extent of the ring's vertices.
InsideOrOn(p, ring) ==
    /\ \/ \A e \in 1 .. Len(ring) - 1 : Side(ring[e], ring[e + 1], p) <= 0
       \/ \A e \in 1 .. Len(ring) - 1 : Side(ring[e], ring[e + 1], p) >= 0
    /\ \E i, j \in 1 .. Len(ring) : ring[i][1] <= p[1] /\ p[1] <= ring[j][1]
    /\ \E i, j \in 1 .. Len(ring) : ring[i][2] <= p[2] /\ p[2] <= ring[j][2]

\* Three of the listed points are not on one line.
SpansArea ==
    \E i, j, k \in Indices : Side(in_points[i], in_points[j], in_points[k]) # 0

\* C11: every point of the list lies inside or on the boundary of the
\* polygon made for it, be it the convex hull or the bounding rectangle.
C11_PolygonHoldsEveryPoint ==
    stage = "enclosed" =>
        \A i \in Indices : InsideOrOn(in_points[i], out_polygon)

C11_Witness ==
    /\ stage = "enclosed"
    /\ Len(in_points) >= 4
    /\ SpansArea
    /\ \E i \in Indices : in_points[i] \notin Range(out_polygon)

\* The five corners of the bounding rectangle of the listed points.
Rectangle ==
    LET xs == {in_points[i][1] : i \in Indices}
        ys == {in_points[i][2] : i \in Indices}
    IN  {<< <<minx, miny>>, <<minx, maxy>>, <<maxx, maxy>>, <<maxx, miny>>,
            <<minx, miny>> >> :
            minx \in {v \in xs : IsLeast(v, xs)}, maxx \in {v \in xs : IsGreatest(v, xs)},
            miny \in {v \in ys : IsLeast(v, ys)}, maxy \in {v \in ys : IsGreatest(v, ys)}}

\* C12: for three or more points that all lie on one line or all coincide,
\* the polygon is the bounding rectangle of the points; a polygon is
\* returned for every non-empty list.
C12_LineFallsBackToRectangle ==
    stage = "enclosed" =>
        /\ Len(out_polygon) >= 4
        /\ (Len(in_points) >= 3 /\ ~SpansArea) => out_polygon \in Rectangle

C12_Witness ==
    /\ stage = "enclosed"
    /\ Len(in_points) >= 3
    /\ ~SpansArea
    /\ Cardinality(Range(in_points)) >= 3

\* The ring has at least 4 coordinate pairs, ends on its first vertex, and
\* no vertex is followed by an equal one.
RingOK(ring) ==
    /\ Len(ring) >= 4
    /\ ring[1] = ring[Len(ring)]
    /\ \A e \in 1 .. Len(ring) - 1 : ring[e] # ring[e + 1]

\* C13: the ring of every stored hotspot has at least 4 coordinate pairs, is
\* closed, and has no two equal consecutive vertices.
C13_RingHasNoRepeatedVertex ==
    \A k \in 1 .. Len(hotspots) : RingOK(hotspots[k].geom)

\* C14: the summary a call returns says what the call did: total_reports is
\* the number of points clustered, clusters_found the number of distinct
\* labels other than NOISE, hotspots_created the number of rows the call
\* wrote and equal to clusters_found; all three are 0 when the call found
\* no report.
C14_SummaryMatchesCall ==
    [][\A r \in Runs :
          (Leaves(r) /\ result'[r].outcome = "returned") =>
              LET s == result'[r]
              IN  /\ s.total_reports = Len(coords[r])
                  /\ s.clusters_found = Cardinality(Range(labels[r]) \ {NOISE})
                  /\ s.hotspots_created = s.clusters_found
                  /\ pc[r] = "exists" =>
                        /\ s.total_reports = 0 /\ s.hotspots_created = 0
                        /\ hotspots' = hotspots
                  /\ pc[r] = "delete" =>
                        s.hotspots_created = 0 /\ hotspots' = <<>>
                  /\ pc[r] = "create" =>
                        /\ s.hotspots_created = created[r] + 1
                        /\ Len(hotspots') = Len(hotspots) + 1
                  /\ (Solo(r) /\ pc[r] # "exists") =>
                        Len(hotspots') = s.hotspots_created]_vars

C14_Witness ==
    \E r \in Runs :
        /\ result[r].outcome = "returned"
        /\ result[r].hotspots_created = 1
        /\ result[r].total_reports = 2
        /\ Len(hotspots) = 1

\* The points joined to those of S by a chain of input points, each within
\* eps of the next.
RECURSIVE Component(_)
Component(S) ==
    LET T == S \cup {j \in Indices :
                        \E i \in S : WithinEps(in_points[i], in_points[j])}
    IN  IF T = S THEN S ELSE Component(T)

\* C15: with min_samples = 1 no point is noise, every point is a core point,
\* and two points carry the same label exactly when a chain of points, each
\* within eps of the next, joins them.
C15_OnePointClusters ==
    (stage = "fitted" /\ in_min_samples = 1) =>
        /\ NoisePoints = {}
        /\ CorePoints = Indices
        /\ \A i, j \in Indices :
              out_labels[i] = out_labels[j] <=> j \in Component({i})

C15_Witness ==
    /\ stage = "fitted"
    /\ in_min_samples = 1
    /\ Len(in_points) = 3
    /\ out_labels[1] = out_labels[2]
    /\ ~WithinEps(in_points[1], in_points[2])

\* Another input point, a duplicate at the same place included, lies within
\* eps of point i.
HasNeighbour(i) ==
    \E j \in Indices \ {i} : WithinEps(in_points[i], in_points[j])

\* C17: with min_samples = 2 a point is a core point exactly when another
\* point lies within eps of it, every other point is noise, the clusters are
\* the connected components of two or more points, and every cluster holds
\* at least 2 points.
C17_NoBorderPoints ==
    (stage = "grouped" /\ in_min_samples = MinSamples) =>
        /\ \A i \in Indices :
              /\ HasNeighbour(i) <=> CorePoint(i)
              /\ out_labels[i] = NOISE <=> ~HasNeighbour(i)
        /\ \A i, j \in Indices \ NoisePoints :
              out_labels[i] = out_labels[j] <=> j \in Component({i})
        /\ \A k \in 1 .. Len(out_clusters) : Len(out_clusters[k].points) >= 2

C17_Witness ==
    /\ stage = "grouped"
    /\ in_min_samples = MinSamples
    /\ Len(out_clusters) = 1
    /\ in_points[1] = in_points[2]
    /\ NoisePoints = {3}

\* C18: when no call is in flight, no two rows of the Hotspot table have the
\* same cluster_id.
C18_ClusterIdsDistinct ==
    (\A r \in Runs : ~InFlight(r)) =>
        \A k, m \in 1 .. Len(hotspots) :
            hotspots[k].cluster_id = hotspots[m].cluster_id => k = m

\* C19: a step of a generate_hotspots call, whether the call goes on,
\* returns early, returns its summary or raises, leaves the Report table as
\* it is; only the Hotspot table changes.
C19_CallLeavesReports ==
    [][(pc' # pc \/ hotspots' # hotspots \/ created' # created \/ result' # result)
          => reports' = reports]_vars

C19_Witness ==
    \E r \in Runs :
        /\ result[r].outcome = "returned"
        /\ result[r].clusters_found = 1
        /\ Count(reports) = 2
        /\ ~InFlight(r)

====
